---- MODULE Spec2Model ----
(***************************************************************************)
(* Box-tree construction of weasy/boxes.py: dom_to_box, inline_in_block    *)
(* and block_in_inline, over a heap of Box objects and of Python lists.    *)
(*                                                                         *)
(* A Box is a record of the heap `boxes`; its identity is its position.   *)
(* A children list is an object of the heap `lists`: block_in_inline       *)
(* iterates lists that the same call mutates in place or replaces, so the  *)
(* identity of a list matters.  Indexes are Python's (0-based).            *)
(***************************************************************************)
EXTENDS Integers, Sequences, FiniteSets, TLC

\* ------------------------------------------------------------------------
\* Bounds of the explored inputs
\* ------------------------------------------------------------------------
\* the number of elements of a document
MaxElems == 4

\* ------------------------------------------------------------------------
\* The styled source tree given to dom_to_box
\* ------------------------------------------------------------------------
\* None, for a parent, a children list, a text, a tail or an index: a value
\* that is no box, no list, no text run and no position
None == -1

\* A display string is the sequence of the segments its hyphens separate:
\* 'block' is <<"block">>, 'table-row' is <<"table", "row">>, 'table-' is
\* <<"table", "">>.
\* the display values drawn for the inputs
Displays == {<<"block">>, <<"inline">>, <<"none">>, <<"flex">>}

\* element i of a document: its display, its text and tail (None or a text
\* run), its parent element; an element's children are the elements naming
\* it as parent, in document order (the order of the ids)
TextOf(i) == 2 * i
TailOf(i) == 2 * i + 1

RECURSIVE AncOrSelf(_, _)
AncOrSelf(par, i) ==
    IF i = None THEN {} ELSE {i} \cup AncOrSelf(par, par[i])

\* the parent vectors that number a tree of n elements in document order
Shapes(n) ==
    {par \in [1..n -> {None} \cup 1..n] :
        /\ par[1] = None
        /\ \A i \in 2..n : par[i] \in AncOrSelf(par, i - 1)}

Slots(n) == {TextOf(i) : i \in 1..n} \cup {TailOf(i) : i \in 2..n}

\* the document of n elements with the parent vector par, the displays d
\* and the text runs t
Doc(n, par, d, t) ==
    [i \in 1..n |->
        [display |-> d[i],
         text    |-> IF TextOf(i) \in t THEN TextOf(i) ELSE None,
         tail    |-> IF TailOf(i) \in t THEN TailOf(i) ELSE None,
         parent  |-> par[i]]]

\* the displays drawn: the unsupported one for one element at most
DisplayChoices(n) ==
    {d \in [1..n -> Displays] :
        \A i, j \in 1..n : (d[i] = <<"flex">> /\ d[j] = <<"flex">>) => i = j}

\* the text runs drawn: none, one, every text, every tail, or all of them
TextChoices(n) ==
    {{}, {TextOf(i) : i \in 1..n}, {TailOf(i) : i \in 2..n}, Slots(n)}
        \cup {{s} : s \in Slots(n)}

\* `for child_element in element`: the child elements in document order
RECURSIVE ChildElementsFrom(_, _, _)
ChildElementsFrom(d, e, i) ==
    IF i > Len(d) THEN <<>>
    ELSE (IF d[i].parent = e THEN <<i>> ELSE <<>>) \o ChildElementsFrom(d, e, i + 1)

ChildElements(d, e) == ChildElementsFrom(d, e, 1)

\* ------------------------------------------------------------------------
\* class Box and its subclasses
\* ------------------------------------------------------------------------
IsBlockLevelBox(h, b) ==
    h.boxes[b].cls \in {"BlockLevelBox", "AnonymousBlockLevelBox"}

IsInlineLevelBox(h, b) == h.boxes[b].cls = "InlineLevelBox"

IsLineBox(h, b) == h.boxes[b].cls = "LineBox"

IsTextBox(h, b) == h.boxes[b].cls = "TextBox"

\* the heap before any box exists
EmptyHeap == [boxes |-> <<>>, lists |-> <<>>, failed |-> FALSE]

\* Box.__init__: no parent, a fresh empty children list; the new box is
\* object Len(h.boxes) + 1
NewBox(h, cls, element) ==
    [h EXCEPT
        !.boxes = Append(@, [cls |-> cls, element |-> element, text |-> None,
                             parent |-> None, children |-> Len(h.lists) + 1]),
        !.lists = Append(@, <<>>)]

\* TextBox.__init__: children is None, text is the run
NewTextBox(h, element, text) ==
    [h EXCEPT
        !.boxes = Append(@, [cls |-> "TextBox", element |-> element, text |-> text,
                             parent |-> None, children |-> None])]

LastBox(h) == Len(h.boxes)

\* box.children, as a sequence ([] for the None of a TextBox)
Children(h, b) ==
    IF h.boxes[b].children = None THEN <<>> ELSE h.lists[h.boxes[b].children]

\* list.insert(index, x), index 0-based
ListInsert(s, index, x) ==
    SubSeq(s, 1, index) \o <<x>> \o SubSeq(s, index + 1, Len(s))

\* list.index(x): 0-based position of the first occurrence
ListIndex(s, x) ==
    (CHOOSE i \in 1..Len(s) : s[i] = x /\ \A j \in 1..(i - 1) : s[j] # x) - 1

\* list.remove(x): drops the first occurrence
ListRemove(s, x) ==
    SubSeq(s, 1, ListIndex(s, x)) \o SubSeq(s, ListIndex(s, x) + 2, Len(s))

\* Box.add_child(child): child.parent = self; self.children.append(child)
add_child(h, self, child) ==
    [h EXCEPT
        !.boxes[child].parent = self,
        !.lists[h.boxes[self].children] = Append(@, child)]

\* Box.add_child(child, index): child.parent = self;
\* self.children.insert(index, child)
add_child_at(h, self, child, index) ==
    [h EXCEPT
        !.boxes[child].parent = self,
        !.lists[h.boxes[self].children] = ListInsert(@, index, child)]

\* Box.parents: the parent, then the parent's parents
RECURSIVE parents(_, _)
parents(h, b) ==
    IF h.boxes[b].parent = None THEN <<>>
    ELSE <<h.boxes[b].parent>> \o parents(h, h.boxes[b].parent)

\* Box.index: position of the box in its parent's children, None for a box
\* without parent
index(h, b) ==
    IF h.boxes[b].parent # None
    THEN ListIndex(Children(h, h.boxes[b].parent), b)
    ELSE None

\* ------------------------------------------------------------------------
\* dom_to_box
\* ------------------------------------------------------------------------
\* ('block', 'list-item', 'table')
BlockDisplays == {<<"block">>, <<"list", "item">>, <<"table">>}

\* display.startswith('table-'): the first segment is 'table' and a hyphen
\* follows it
StartsWithTable(display) == Len(display) >= 2 /\ display[1] = "table"

\* ('inline', 'inline-block', 'inline-table', 'ruby')
InlineDisplays ==
    {<<"inline">>, <<"inline", "block">>, <<"inline", "table">>, <<"ruby">>}

GeneratesBlock(display) == display \in BlockDisplays \/ StartsWithTable(display)

GeneratesInline(display) == display \in InlineDisplays

\* dom_to_box(element) returns: no assert fails and no NotImplementedError
\* is raised, in the element or in a child element it recurses into
RECURSIVE Accepted(_, _)
Accepted(d, e) ==
    /\ d[e].display # <<"none">>
    /\ GeneratesBlock(d[e].display) \/ GeneratesInline(d[e].display)
    /\ \A i \in 1..Len(d) :
          (d[i].parent = e /\ d[i].display # <<"none">>) => Accepted(d, i)

\* the exception dom_to_box(element) ends with, when it does not return
RECURSIVE BuildError(_, _)
BuildError(d, e) ==
    IF d[e].display = <<"none">> THEN "AssertionError"
    ELSE IF ~(GeneratesBlock(d[e].display) \/ GeneratesInline(d[e].display))
         THEN "NotImplementedError"
    ELSE LET bad == {i \in 1..Len(d) :
                        d[i].parent = e /\ d[i].display # <<"none">> /\ ~Accepted(d, i)}
         IN  BuildError(d, CHOOSE i \in bad : \A j \in bad : i <= j)

RECURSIVE dom_to_box(_, _, _), dom_children(_, _, _, _, _)
\* dom_children with the tail of a child element appended only when the
\* child element got a box (the `if child_element.tail` nested in the display
\* test): the slip C10_TailOfEveryChild must detect
dom_children_tail_with_box(h, d, e, box, k) ==
    LET kids == ChildElements(d, e) IN
    IF k > Len(kids) THEN h
    ELSE LET c  == kids[k]
             h1 == IF d[c].display # <<"none">>
                   THEN LET r == dom_to_box(h, d, c) IN add_child(r.h, box, r.box)
                   ELSE h
             h2 == IF d[c].display # <<"none">> /\ d[c].tail # None
                   THEN add_child(NewTextBox(h1, e, d[c].tail), box, LastBox(h1) + 1)
                   ELSE h1
         IN  dom_children(h2, d, e, box, k + 1)

\* the body of `for child_element in element`, from the k-th child element
dom_children(h, d, e, box, k) ==
    LET kids == ChildElements(d, e) IN
    IF k > Len(kids) THEN h
    ELSE LET c  == kids[k]
             h1 == IF d[c].display # <<"none">>
                   THEN LET r == dom_to_box(h, d, c) IN add_child(r.h, box, r.box)
                   ELSE h
             h2 == IF d[c].tail # None
                   THEN add_child(NewTextBox(h1, e, d[c].tail), box, LastBox(h1) + 1)
                   ELSE h1
         IN  dom_children(h2, d, e, box, k + 1)

\* dom_to_box(element) on an accepted element: the heap with the boxes built
\* and the box returned
dom_to_box(h, d, e) ==
    LET h0  == NewBox(h, IF GeneratesBlock(d[e].display)
                         THEN "BlockLevelBox" ELSE "InlineLevelBox", e)
        box == LastBox(h0)
        h1  == IF d[e].text # None
               THEN add_child(NewTextBox(h0, e, d[e].text), box, LastBox(h0) + 1)
               ELSE h0
    IN  [h |-> dom_children(h1, d, e, box, 1), box |-> box]

\* ------------------------------------------------------------------------
\* inline_in_block
\* ------------------------------------------------------------------------
\* `box.children = []`: a new list object; the old one stays as it is
SetNewChildren(h, b, s) ==
    [h EXCEPT !.boxes[b].children = Len(h.lists) + 1,
              !.lists = Append(@, s)]

\* iib_flush without the `if box.children` test: the last run is wrapped in an
\* anonymous box even when the box had inline-level children only; the slip
\* C5_InlineRunsWrapped must detect
iib_flush_always_anonymous(h, box, line_box) ==
    IF Children(h, line_box) # <<>>
    THEN LET h1 == NewBox(h, "AnonymousBlockLevelBox", h.boxes[box].element)
             anonymous == LastBox(h1)
         IN  add_child(add_child(h1, anonymous, line_box), box, anonymous)
    ELSE h

\* the end of inline_in_block, after the loop: `if line_box.children: ...`
iib_flush(h, box, line_box) ==
    IF Children(h, line_box) # <<>>
    THEN \* There were inlines at the end
         IF Children(h, box) # <<>>
         THEN LET h1 == NewBox(h, "AnonymousBlockLevelBox", h.boxes[box].element)
                  anonymous == LastBox(h1)
              IN  add_child(add_child(h1, anonymous, line_box), box, anonymous)
         ELSE \* Only inline-level children: one line box
              add_child(h, box, line_box)
    ELSE h

RECURSIVE inline_in_block(_, _), iib_recurse(_, _, _), iib_wrap(_, _, _, _, _)
\* `for child_box in box.children or []: inline_in_block(child_box)`, from
\* position i of the list object l
iib_recurse(h, l, i) ==
    IF l = None \/ h.failed THEN h
    ELSE IF i >= Len(h.lists[l]) THEN h
    ELSE iib_recurse(inline_in_block(h, h.lists[l][i + 1]), l, i + 1)

\* `for child_box in children`, from position i of the old list, with the
\* current line box, and the code after the loop
iib_wrap(h, box, children, line_box, i) ==
    IF i >= Len(h.lists[children]) THEN iib_flush(h, box, line_box)
    ELSE LET child_box == h.lists[children][i + 1] IN
         IF IsLineBox(h, child_box)
         THEN [h EXCEPT !.failed = TRUE]     \* assert not isinstance(.., LineBox)
         ELSE IF IsBlockLevelBox(h, child_box)
         THEN IF Children(h, line_box) # <<>>
              THEN LET h1 == NewBox(h, "AnonymousBlockLevelBox", h.boxes[box].element)
                       anonymous == LastBox(h1)
                       h2 == add_child(add_child(h1, anonymous, line_box), box, anonymous)
                       h3 == NewBox(h2, "LineBox", h.boxes[box].element)
                   IN  iib_wrap(add_child(h3, box, child_box), box, children,
                                LastBox(h3), i + 1)
              ELSE iib_wrap(add_child(h, box, child_box), box, children, line_box, i + 1)
         ELSE iib_wrap(add_child(h, line_box, child_box), box, children, line_box, i + 1)

\* inline_in_block without the test "this work was already done on this box":
\* the slip C6_Idempotent must detect
inline_in_block_unchecked(h, box) ==
    LET h1 == iib_recurse(h, h.boxes[box].children, 0) IN
    IF h1.failed THEN h1
    ELSE IF ~IsBlockLevelBox(h1, box) THEN h1
    ELSE LET h2 == NewBox(h1, "LineBox", h1.boxes[box].element)
             line_box == LastBox(h2)
             children == h2.boxes[box].children
             h3 == SetNewChildren(h2, box, <<>>)
         IN  iib_wrap(h3, box, children, line_box, 0)

\* inline_in_block(box): the heap after the call; failed when an assert fails
inline_in_block(h, box) ==
    LET h1 == iib_recurse(h, h.boxes[box].children, 0) IN
    IF h1.failed THEN h1
    ELSE IF ~IsBlockLevelBox(h1, box) THEN h1
    ELSE IF Len(Children(h1, box)) = 1 /\ IsLineBox(h1, Children(h1, box)[1]) THEN h1
    ELSE LET h2 == NewBox(h1, "LineBox", h1.boxes[box].element)
             line_box == LastBox(h2)
             children == h2.boxes[box].children
             h3 == SetNewChildren(h2, box, <<>>)
         IN  iib_wrap(h3, box, children, line_box, 0)

\* ------------------------------------------------------------------------
\* block_in_inline: the rewrite around one block-level box
\* ------------------------------------------------------------------------
\* Triggers looking one level up only, for a line box right above the
\* inline-level parent: the slip C1_NoBlockInInline must detect
TriggersDirectOnly(h, box) ==
    /\ h.boxes[box].cls \in {"BlockLevelBox", "AnonymousBlockLevelBox"}
    /\ h.boxes[box].parent # None
    /\ h.boxes[h.boxes[box].parent].cls = "InlineLevelBox"
    /\ h.boxes[h.boxes[box].parent].parent # None
    /\ h.boxes[h.boxes[h.boxes[box].parent].parent].cls # "InlineLevelBox"

\* `isinstance(box, BlockLevelBox)` and `box.parent and
\* isinstance(box.parent, InlineLevelBox)`
Triggers(h, box) ==
    /\ IsBlockLevelBox(h, box)
    /\ h.boxes[box].parent # None
    /\ IsInlineLevelBox(h, h.boxes[box].parent)

\* the first loop over box.parents: the inline-level parents, nearest first
RECURSIVE InlineParentsFrom(_, _, _)
InlineParentsFrom(h, ps, i) ==
    IF i > Len(ps) THEN <<>>
    ELSE IF IsInlineLevelBox(h, ps[i]) THEN <<ps[i]>> \o InlineParentsFrom(h, ps, i + 1)
    ELSE <<>>

inline_parents(h, box) == InlineParentsFrom(h, parents(h, box), 1)

\* the first loop over box.parents: the first parent that is not
\* inline-level, None when every parent is
parent_line_box(h, box) ==
    LET ps == parents(h, box)
        n  == Len(inline_parents(h, box))
    IN  IF n < Len(ps) THEN ps[n + 1] ELSE None

\* None.element and None.add_child raise AttributeError
SplitRaises(h, box) ==
    IF parent_line_box(h, box) = None THEN TRUE
    ELSE h.boxes[parent_line_box(h, box)].parent = None

\* AddPrevious without `parent_line_box.parent.children.remove(parent_line_box)`:
\* the line box stays listed under its old parent; the slip C4_WellFormedTree
\* must detect
AddPreviousKeepsLine(h, plb) ==
    LET h1 == NewBox(h, "AnonymousBlockLevelBox", h.boxes[plb].element)
        previous_anonymous_box == LastBox(h1)
        p  == h1.boxes[plb].parent
        h2 == add_child_at(h1, p, previous_anonymous_box, index(h1, plb))
    IN  add_child(h2, previous_anonymous_box, plb)

\* "Add an anonymous block level box before the block box"
AddPrevious(h, plb) ==
    LET h1 == NewBox(h, "AnonymousBlockLevelBox", h.boxes[plb].element)
        previous_anonymous_box == LastBox(h1)
        p  == h1.boxes[plb].parent
        h2 == add_child_at(h1, p, previous_anonymous_box, index(h1, plb))
        h3 == [h2 EXCEPT !.lists[h2.boxes[p].children] = ListRemove(@, plb)]
    IN  add_child(h3, previous_anonymous_box, plb)

\* "Add an anonymous block level box after the block box"
AddNext(h, plb, previous_anonymous_box) ==
    LET h1 == NewBox(h, "AnonymousBlockLevelBox", h.boxes[plb].element)
    IN  add_child_at(h1, h1.boxes[previous_anonymous_box].parent, LastBox(h1),
                     index(h1, previous_anonymous_box) + 1)

\* CloneChain taking the inline parents from the first of the list (pop(0) for
\* pop()), the clone of the innermost outside: the slip C9_SplitStep must detect
RECURSIVE CloneChainInnermostFirst(_, _, _)
CloneChainInnermostFirst(h, ips, next_anonymous_box) ==
    IF ips = <<>> THEN [h |-> h, next |-> next_anonymous_box]
    ELSE LET parent == ips[1]
             h1 == NewBox(h, "InlineLevelBox", h.boxes[parent].element)
             clone_inline_box == LastBox(h1)
         IN  CloneChainInnermostFirst(add_child(h1, next_anonymous_box, clone_inline_box),
                                      Tail(ips), clone_inline_box)

\* `while inline_parents: parent = inline_parents.pop() ...`: the clones,
\* from the last of the list (the outermost) to the first; the result is the
\* heap and the last value of next_anonymous_box
RECURSIVE CloneChain(_, _, _)
CloneChain(h, ips, next_anonymous_box) ==
    IF ips = <<>> THEN [h |-> h, next |-> next_anonymous_box]
    ELSE LET parent == ips[Len(ips)]
             h1 == NewBox(h, "InlineLevelBox", h.boxes[parent].element)
             clone_inline_box == LastBox(h1)
         IN  CloneChain(add_child(h1, next_anonymous_box, clone_inline_box),
                        SubSeq(ips, 1, Len(ips) - 1), clone_inline_box)

\* `for child in next_children: next_anonymous_box.add_child(child)`
RECURSIVE AddAll(_, _, _)
AddAll(h, self, s) ==
    IF s = <<>> THEN h ELSE AddAll(add_child(h, self, Head(s)), self, Tail(s))

\* the second loop over box.parents, at its k-th parent
RECURSIVE MoveNext(_, _, _, _, _, _)
MoveNext(h, box, plb, splitter_box, next_anonymous_box, k) ==
    LET ps == parents(h, box) IN
    IF k > Len(ps) THEN h
    ELSE LET parent == ps[k] IN
         IF parent = plb THEN h
         ELSE LET cs == Children(h, parent)
                  next_children == SubSeq(cs, index(h, splitter_box) + 2, Len(cs))
                  h1 == SetNewChildren(h, parent, SubSeq(cs, 1, index(h, splitter_box)))
                  h2 == AddAll(h1, next_anonymous_box, next_children)
              IN  MoveNext(h2, box, plb, parent, h2.boxes[next_anonymous_box].parent,
                           k + 1)

\* the body of `if box.parent and isinstance(box.parent, InlineLevelBox)`,
\* when it raises nothing
Split(h, box) ==
    LET plb  == parent_line_box(h, box)
        ips  == inline_parents(h, box)
        h1   == AddPrevious(h, plb)
        previous_anonymous_box == LastBox(h1)
        h2   == AddNext(h1, plb, previous_anonymous_box)
        c    == CloneChain(h2, ips, LastBox(h2))
        h3   == MoveNext(c.h, box, plb, box, c.next, 1)
    IN  add_child_at(h3, h3.boxes[previous_anonymous_box].parent, box,
                     index(h3, previous_anonymous_box) + 1)

\* block_in_inline(box) up to its own loop over the children
Visit(h, box) == IF Triggers(h, box) THEN Split(h, box) ELSE h

\* ------------------------------------------------------------------------
\* The program: the three passes applied to one document
\* ------------------------------------------------------------------------
VARIABLES
    doc,      \* the styled source tree
    boxes,    \* the Box objects
    lists,    \* the children lists
    root,     \* the box dom_to_box returned, None before
    passes,   \* the passes that returned, in order
    pc,       \* "start", "idle", "block_in_inline" (the pass in progress), "raised"
    stack,    \* block_in_inline: the list iterators of the calls in progress
    error     \* the exception raised, "" when none

vars == <<doc, boxes, lists, root, passes, pc, stack, error>>

Heap == [boxes |-> boxes, lists |-> lists, failed |-> FALSE]

Init ==
    /\ \E n \in 1..MaxElems :
          \E par \in Shapes(n), d \in DisplayChoices(n), t \in TextChoices(n) :
             doc = Doc(n, par, d, t)
    /\ boxes = <<>>
    /\ lists = <<>>
    /\ root = None
    /\ passes = <<>>
    /\ pc = "start"
    /\ stack = <<>>
    /\ error = ""

\* box = dom_to_box(element), returning
DomToBox ==
    /\ pc = "start"
    /\ Accepted(doc, 1)
    /\ LET r == dom_to_box(EmptyHeap, doc, 1) IN
          /\ boxes' = r.h.boxes
          /\ lists' = r.h.lists
          /\ root' = r.box
    /\ passes' = <<"dom_to_box">>
    /\ pc' = "idle"
    /\ UNCHANGED <<doc, stack, error>>

\* dom_to_box(element), raising
DomToBoxRaises ==
    /\ pc = "start"
    /\ ~Accepted(doc, 1)
    /\ pc' = "raised"
    /\ error' = BuildError(doc, 1)
    /\ UNCHANGED <<doc, boxes, lists, root, passes, stack>>

\* the orders in which the passes are applied: the order of the entry point
\* (dom_to_box, inline_in_block, block_in_inline), inline_in_block applied
\* again to the result, and block_in_inline invoked before inline_in_block
MayInlineInBlock ==
    passes \in {<<"dom_to_box">>,
                <<"dom_to_box", "inline_in_block", "block_in_inline">>}

MayBlockInInline ==
    passes \in {<<"dom_to_box">>, <<"dom_to_box", "inline_in_block">>}

\* inline_in_block(box) at the root
InlineInBlock ==
    /\ pc = "idle"
    /\ MayInlineInBlock
    /\ LET h == inline_in_block(Heap, root) IN
          /\ boxes' = h.boxes
          /\ lists' = h.lists
          /\ pc' = IF h.failed THEN "raised" ELSE "idle"
          /\ error' = IF h.failed THEN "AssertionError" ELSE ""
          /\ passes' = IF h.failed THEN passes ELSE Append(passes, "inline_in_block")
    /\ UNCHANGED <<doc, root, stack>>

\* `for child_box in box.children or []`: the iterator of a call; `or []`
\* makes it an iterator over a new empty list when the box has no child
Iterator(h, box) ==
    [list |-> IF Children(h, box) = <<>> THEN None ELSE h.boxes[box].children,
     pos  |-> 0]

\* the iterator has a next item in the list as it is now
HasNext(h, it) == it.list # None /\ it.pos < Len(h.lists[it.list])

\* the calls whose loop is over return, innermost first
RECURSIVE Unwind(_, _)
Unwind(h, st) ==
    IF st = <<>> THEN st
    ELSE IF HasNext(h, st[Len(st)]) THEN st
    ELSE Unwind(h, SubSeq(st, 1, Len(st) - 1))

\* the box the innermost call in progress passes to its next recursive call
NextBox == lists[stack[Len(stack)].list][stack[Len(stack)].pos + 1]

Advance(st) == [st EXCEPT ![Len(st)].pos = @ + 1]

\* the calls in progress once block_in_inline(box) has done its own rewrite
\* on the heap h and reached its loop
Enter(h, st, box) == Unwind(h, Append(st, Iterator(h, box)))

\* the pass returns when the call at the root does
Resume(st) ==
    /\ stack' = st
    /\ pc' = IF st = <<>> THEN "idle" ELSE "block_in_inline"
    /\ passes' = IF st = <<>> THEN Append(passes, "block_in_inline") ELSE passes

\* block_in_inline(box) at the root, up to its first recursive call
BlockInInline ==
    /\ pc = "idle"
    /\ MayBlockInInline
    /\ LET h == Visit(Heap, root) IN
          /\ boxes' = h.boxes
          /\ lists' = h.lists
          /\ Resume(Enter(h, <<>>, root))
    /\ UNCHANGED <<doc, root, error>>

\* a recursive call block_in_inline(child_box) on a box that is not a
\* block-level box in an inline-level box, up to the next recursive call
BlockInInlineDescend ==
    /\ pc = "block_in_inline"
    /\ ~Triggers(Heap, NextBox)
    /\ Resume(Enter(Heap, Advance(stack), NextBox))
    /\ UNCHANGED <<doc, boxes, lists, root, error>>

\* a recursive call block_in_inline(child_box) that rewrites the tree around
\* child_box, up to the next recursive call
BlockInInlineSplit ==
    /\ pc = "block_in_inline"
    /\ Triggers(Heap, NextBox)
    /\ ~SplitRaises(Heap, NextBox)
    /\ LET h == Visit(Heap, NextBox) IN
          /\ boxes' = h.boxes
          /\ lists' = h.lists
          /\ Resume(Enter(h, Advance(stack), NextBox))
    /\ UNCHANGED <<doc, root, error>>

\* a recursive call block_in_inline(child_box) that raises AttributeError:
\* parent_line_box is None, or (after the box for previous_anonymous_box is
\* created) parent_line_box.parent is
BlockInInlineRaises ==
    /\ pc = "block_in_inline"
    /\ Triggers(Heap, NextBox)
    /\ SplitRaises(Heap, NextBox)
    /\ LET plb == parent_line_box(Heap, NextBox)
           h   == IF plb = None THEN Heap
                  ELSE NewBox(Heap, "AnonymousBlockLevelBox", boxes[plb].element)
       IN  /\ boxes' = h.boxes
           /\ lists' = h.lists
    /\ pc' = "raised"
    /\ error' = "AttributeError"
    /\ stack' = <<>>
    /\ UNCHANGED <<doc, root, passes>>

Next ==
    \/ DomToBox
    \/ DomToBoxRaises
    \/ InlineInBlock
    \/ BlockInInline
    \/ BlockInInlineDescend
    \/ BlockInInlineSplit
    \/ BlockInInlineRaises

Spec == Init /\ [][Next]_vars

\* ------------------------------------------------------------------------
\* Reading a box tree
\* ------------------------------------------------------------------------
ToSet(s) == {s[i] : i \in 1..Len(s)}

RECURSIVE ReachFrom(_, _, _)
ReachFrom(h, S, n) ==
    LET T == S \cup UNION {ToSet(Children(h, b)) : b \in S} IN
    IF n = 0 \/ T = S THEN S ELSE ReachFrom(h, T, n - 1)

\* the boxes of the subtree of b, b included
Subtree(h, b) == ReachFrom(h, {b}, Len(h.boxes))

RECURSIVE TextLeaves(_, _), TextLeavesOf(_, _)
\* the text runs of the TextBox leaves under b, left to right
TextLeaves(h, b) ==
    IF IsTextBox(h, b) THEN <<h.boxes[b].text>> ELSE TextLeavesOf(h, Children(h, b))

TextLeavesOf(h, s) ==
    IF s = <<>> THEN <<>> ELSE TextLeaves(h, Head(s)) \o TextLeavesOf(h, Tail(s))

RECURSIVE Structure(_, _)
\* the subtree of b up to the identity of its boxes: variants, children in
\* order, text
Structure(h, b) ==
    [cls  |-> h.boxes[b].cls,
     text |-> h.boxes[b].text,
     kids |-> [i \in 1..Len(Children(h, b)) |-> Structure(h, Children(h, b)[i])]]

NoDuplicates(s) == \A i, j \in 1..Len(s) : s[i] = s[j] => i = j

\* the tree dom_to_box returns for the document, and that tree after
\* inline_in_block; box 1 is the root
Built == dom_to_box(EmptyHeap, doc, 1).h

Normalized == inline_in_block(Built, 1)

PipelinePasses == <<"dom_to_box", "inline_in_block", "block_in_inline">>

\* the three passes of the entry point have returned
PipelineDone == pc = "idle" /\ passes = PipelinePasses

\* children of a block-level box: exactly one LineBox, or block-level boxes only
BlockShape(h, b) ==
    \/ Len(Children(h, b)) = 1 /\ IsLineBox(h, Children(h, b)[1])
    \/ \A i \in 1..Len(Children(h, b)) : IsBlockLevelBox(h, Children(h, b)[i])

\* ------------------------------------------------------------------------
\* Claims
\* ------------------------------------------------------------------------

\* C1: after dom_to_box, inline_in_block and block_in_inline at a block-level
\* root, no InlineLevelBox of the tree has a block-level box (BlockLevelBox or
\* AnonymousBlockLevelBox) anywhere in its subtree.
C1_NoBlockInInline ==
    (PipelineDone /\ IsBlockLevelBox(Heap, root)) =>
        \A b \in Subtree(Heap, root) :
            IsInlineLevelBox(Heap, b) =>
                \A c \in Subtree(Heap, b) : ~IsBlockLevelBox(Heap, c)

\* C1 witness: the pipeline returned on a tree where a block-level box that a
\* first split moved under a cloned inline box was split out in its turn (the
\* 'after' box of the first split is wrapped by the 'before' box of the second).
C1_Witness ==
    /\ PipelineDone
    /\ IsBlockLevelBox(Heap, root)
    /\ \E a \in Subtree(Heap, root) :
          /\ boxes[a].cls = "AnonymousBlockLevelBox"
          /\ Len(Children(Heap, a)) = 1
          /\ boxes[Children(Heap, a)[1]].cls = "AnonymousBlockLevelBox"
          /\ \E c \in Subtree(Heap, a) : IsInlineLevelBox(Heap, c)

\* C2: in the tree output by the pipeline at a block-level root, every
\* block-level box has as children exactly one LineBox or block-level boxes
\* only.
C2_BlockChildrenShape ==
    (PipelineDone /\ IsBlockLevelBox(Heap, root)) =>
        \A b \in Subtree(Heap, root) :
            IsBlockLevelBox(Heap, b) => BlockShape(Heap, b)

\* C3: the left-to-right sequence of the TextBox leaves after inline_in_block
\* equals the one of the tree dom_to_box built, and the sequence after
\* block_in_inline equals the one after inline_in_block.
C3_TextOrderPreserved ==
    /\ (pc = "idle" /\ passes = <<"dom_to_box", "inline_in_block">>) =>
          TextLeaves(Heap, root) = TextLeaves(Built, root)
    /\ PipelineDone =>
          TextLeaves(Heap, root) = TextLeaves(Normalized, root)

\* every box listed in a children list has the owner of the list as parent,
\* and is listed once, in that list alone
Owned(h, S) ==
    \A b \in S :
        /\ NoDuplicates(Children(h, b))
        /\ \A c \in ToSet(Children(h, b)) : h.boxes[c].parent = b

\* C4: after each pass that returns, the root has no parent and every box
\* reachable from the root is listed exactly once, in the children of the box
\* that is its parent (so the boxes form a tree without cycle); and no box at
\* all, reachable or not, lists a child whose parent field names another box.
C4_WellFormedTree ==
    pc = "idle" =>
        /\ boxes[root].parent = None
        /\ Owned(Heap, Subtree(Heap, root))
        /\ Owned(Heap, 1..Len(boxes))

\* C4 witness: block_in_inline returned after re-homing a trailing sibling: a
\* box that dom_to_box built is now the child of an inline box that
\* block_in_inline created under an anonymous block-level box.
C4_Witness ==
    /\ PipelineDone
    /\ \E x \in Subtree(Heap, root) :
          /\ x <= Len(Built.boxes)
          /\ boxes[x].parent > Len(Normalized.boxes)
          /\ IsInlineLevelBox(Heap, boxes[x].parent)

\* the children of the line box that the anonymous box a wraps
RunOf(h, a) == Children(h, Children(h, a)[1])

\* the children s with every box created after the first n replaced by the
\* run it wraps
RECURSIVE Unwrapped(_, _, _)
Unwrapped(h, n, s) ==
    IF s = <<>> THEN <<>>
    ELSE (IF Head(s) > n THEN RunOf(h, Head(s)) ELSE <<Head(s)>>)
             \o Unwrapped(h, n, Tail(s))

\* g is h after inline_in_block, at the block-level box b
NormalizedAt(h, g, b) ==
    LET n   == Len(h.boxes)
        old == IF b <= n THEN Children(h, b) ELSE <<>>
        new == Children(g, b)
        wraps(a) == /\ g.boxes[a].cls = "AnonymousBlockLevelBox"
                    /\ Len(Children(g, a)) = 1
                    /\ IsLineBox(g, Children(g, a)[1])
                    /\ Children(g, a)[1] > n
                    /\ RunOf(g, a) # <<>>
                    /\ \A i \in 1..Len(RunOf(g, a)) : ~IsBlockLevelBox(g, RunOf(g, a)[i])
    IN  /\ BlockShape(g, b)
        /\ b > n => wraps(b)
        /\ (b <= n /\ old = <<>>) => new = <<>>
        /\ (b <= n /\ old # <<>> /\ \A i \in 1..Len(old) : ~IsBlockLevelBox(h, old[i])) =>
              /\ Len(new) = 1
              /\ IsLineBox(g, new[1])
              /\ new[1] > n
              /\ Children(g, new[1]) = old
        /\ (b <= n /\ \E i \in 1..Len(old) : IsBlockLevelBox(h, old[i])) =>
              /\ \A i \in 1..Len(new) : IsBlockLevelBox(g, new[i])
              /\ \A i \in 1..Len(new) : new[i] > n => wraps(new[i])
              /\ \A i \in 1..(Len(new) - 1) : ~(new[i] > n /\ new[i + 1] > n)
              /\ Unwrapped(g, n, new) = old

\* C5: after inline_in_block on a tree dom_to_box built, every block-level box
\* has exactly one LineBox child or block-level children only: a box without
\* children keeps none, a box whose children were all inline-level or text has
\* one new LineBox holding them, a box mixing the two kinds has each maximal
\* run of inline-level children replaced by AnonymousBlockLevelBox[LineBox[run]],
\* its block-level children staying in place.
C5_InlineRunsWrapped ==
    [][(pc = "idle" /\ passes = <<"dom_to_box">>
            /\ passes' = <<"dom_to_box", "inline_in_block">>) =>
          \A b \in Subtree(Heap', root) :
              IsBlockLevelBox(Heap', b) => NormalizedAt(Heap, Heap', b)]_vars

\* C5 witness: inline_in_block returned on a tree with the three cases: a
\* block-level box left without children, one with a LineBox as only child,
\* and an anonymous block-level box wrapping a run next to a block-level box.
C5_Witness ==
    /\ pc = "idle"
    /\ passes = <<"dom_to_box", "inline_in_block">>
    /\ \E b1, b2, b3 \in Subtree(Heap, root) :
          /\ boxes[b1].cls = "BlockLevelBox" /\ Children(Heap, b1) = <<>>
          /\ boxes[b2].cls = "BlockLevelBox" /\ Len(Children(Heap, b2)) = 1
          /\ IsLineBox(Heap, Children(Heap, b2)[1])
          /\ boxes[b3].cls = "AnonymousBlockLevelBox"

\* C6: for the tree T of any state between two passes, when inline_in_block
\* succeeds on T, applying it again to the result succeeds and leaves the same
\* variants, children in the same order and text.
C6_Idempotent ==
    pc = "idle" =>
        LET g1 == inline_in_block(Heap, root)
            g2 == inline_in_block(g1, root)
        IN  ~g1.failed => (~g2.failed /\ Structure(g2, root) = Structure(g1, root))

\* C6 witness: inline_in_block has returned on a tree where it wrapped a run in
\* an anonymous block-level box and gave another box a single LineBox.
C6_Witness ==
    /\ pc = "idle"
    /\ passes = <<"dom_to_box", "inline_in_block">>
    /\ \E a, b \in Subtree(Heap, root) :
          /\ boxes[a].cls = "AnonymousBlockLevelBox"
          /\ boxes[b].cls = "BlockLevelBox"
          /\ Len(Children(Heap, b)) = 1
          /\ IsLineBox(Heap, Children(Heap, b)[1])

\* C7: block-level boxes that were adjacent siblings inside an inline-level box
\* are, once the pipeline has returned, adjacent siblings of each other.
C7_ConsecutiveBlocksAdjacent ==
    PipelineDone =>
        \A b \in Subtree(Built, root) :
            IsInlineLevelBox(Built, b) =>
                \A i \in 1..(Len(Children(Built, b)) - 1) :
                    LET x == Children(Built, b)[i]
                        y == Children(Built, b)[i + 1]
                    IN  (IsBlockLevelBox(Built, x) /\ IsBlockLevelBox(Built, y)) =>
                            /\ boxes[x].parent = boxes[y].parent
                            /\ index(Heap, y) = index(Heap, x) + 1

\* C8: a recursive call of block_in_inline on a block-level box in an
\* inline-level box whose first parent that is not inline-level is missing or
\* is not a LineBox raises an error.
C8_RaisesWithoutLineBox ==
    [][(/\ pc = "block_in_inline"
        /\ Triggers(Heap, NextBox)
        /\ IF parent_line_box(Heap, NextBox) = None THEN TRUE
           ELSE ~IsLineBox(Heap, parent_line_box(Heap, NextBox)))
          => pc' = "raised"]_vars

\* g is h after the rewrite around box, whose inline-level parents are below
\* the line box L
SplitAround(h, g, box) ==
    LET n    == Len(h.boxes)
        ips  == inline_parents(h, box)
        k    == Len(ips)
        L    == parent_line_box(h, box)
        P    == h.boxes[L].parent
        oldP == Children(h, P)
        i0   == index(h, L)
        before == n + 1
        after  == n + 2
        \* the clone of the m-th inline parent (1: the nearest to box)
        clone(m) == n + 2 + (k + 1 - m)
        splitter(m) == IF m = 1 THEN box ELSE ips[m - 1]
        olds(m) == Children(h, ips[m])
        pos(m)  == index(h, splitter(m))
    IN  /\ Len(g.boxes) = n + 2 + k
        /\ Children(g, P) =
              SubSeq(oldP, 1, i0) \o <<before, box, after>>
                  \o SubSeq(oldP, i0 + 2, Len(oldP))
        /\ g.boxes[before].cls = "AnonymousBlockLevelBox"
        /\ g.boxes[after].cls = "AnonymousBlockLevelBox"
        /\ g.boxes[before].parent = P
        /\ g.boxes[box].parent = P
        /\ g.boxes[after].parent = P
        /\ Children(g, before) = <<L>>
        /\ g.boxes[L].parent = before
        /\ Children(g, after) = <<clone(k)>>
        /\ g.boxes[clone(k)].parent = after
        /\ \A m \in 1..k :
              /\ g.boxes[clone(m)].cls = "InlineLevelBox"
              /\ g.boxes[clone(m)].element = h.boxes[ips[m]].element
              /\ Children(g, ips[m]) = SubSeq(olds(m), 1, pos(m))
              /\ Children(g, clone(m)) =
                    (IF m = 1 THEN <<>> ELSE <<clone(m - 1)>>)
                        \o SubSeq(olds(m), pos(m) + 2, Len(olds(m)))
              /\ \A c \in ToSet(Children(g, clone(m))) : g.boxes[c].parent = clone(m)

\* C9: one rewrite of block_in_inline around a box below the line box L leaves
\* 'before', the box and 'after' as three consecutive children of the former
\* parent of L, from the former index of L, its other children in order; L as
\* the only child of 'before'; in 'after' a chain of new inline boxes with the
\* elements of the inline parents, outermost first; and at each level the
\* siblings that followed moved in order to the clone of the level, those that
\* preceded left in the original inline box.
C9_SplitStep ==
    [][(/\ pc = "block_in_inline"
        /\ passes = <<"dom_to_box", "inline_in_block">>
        /\ Triggers(Heap, NextBox)
        /\ ~SplitRaises(Heap, NextBox)
        /\ IsLineBox(Heap, parent_line_box(Heap, NextBox)))
          => SplitAround(Heap, Heap', NextBox)]_vars

\* C9 witness: a rewrite has happened around a box with two inline-level
\* parents: the 'after' box holds a new inline box whose children are a new
\* inline box and a re-homed sibling that dom_to_box built.
C9_Witness ==
    /\ pc = "block_in_inline"
    /\ passes = <<"dom_to_box", "inline_in_block">>
    /\ \E a \in 1..Len(boxes) :
          /\ a > Len(Normalized.boxes)
          /\ boxes[a].cls = "AnonymousBlockLevelBox"
          /\ Len(Children(Heap, a)) = 1
          /\ LET c == Children(Heap, a)[1] IN
                /\ IsInlineLevelBox(Heap, c)
                /\ c > Len(Normalized.boxes)
                /\ Len(Children(Heap, c)) >= 2
                /\ IsInlineLevelBox(Heap, Children(Heap, c)[1])
                /\ Children(Heap, c)[1] > Len(Normalized.boxes)
                /\ Children(Heap, c)[2] <= Len(Built.boxes)

\* what a child box is: a text run, or the box of an element
Described(h, s) ==
    [i \in 1..Len(s) |->
        IF IsTextBox(h, s[i]) THEN <<"text", h.boxes[s[i]].text>>
        ELSE <<"box", h.boxes[s[i]].element>>]

LeadingText(d, e) == IF d[e].text # None THEN <<<<"text", d[e].text>>>> ELSE <<>>

\* the children after the leading text as the claim has them: per child element
\* that is not display none, its box, then its tail
RECURSIVE TailsAfterBoxes(_, _)
TailsAfterBoxes(d, kids) ==
    IF kids = <<>> THEN <<>>
    ELSE LET c == Head(kids) IN
         (IF d[c].display # <<"none">>
          THEN <<<<"box", c>>>> \o (IF d[c].tail # None THEN <<<<"text", d[c].tail>>>>
                                    ELSE <<>>)
          ELSE <<>>) \o TailsAfterBoxes(d, Tail(kids))

\* the children after the leading text with the tail of every child element
RECURSIVE TailsOfAll(_, _)
TailsOfAll(d, kids) ==
    IF kids = <<>> THEN <<>>
    ELSE LET c == Head(kids) IN
         (IF d[c].display # <<"none">> THEN <<<<"box", c>>>> ELSE <<>>)
             \o (IF d[c].tail # None THEN <<<<"text", d[c].tail>>>> ELSE <<>>)
             \o TailsOfAll(d, Tail(kids))

\* C10 as stated: the children of a box dom_to_box built are the leading text,
\* then per child element whose display is not none its box, each tail TextBox
\* sitting right after the box built for the child element it is the tail of.
C10_TailAfterOwnBox ==
    (pc = "idle" /\ passes = <<"dom_to_box">>) =>
        \A b \in 1..Len(boxes) :
            ~IsTextBox(Heap, b) =>
                Described(Heap, Children(Heap, b)) =
                    LeadingText(doc, boxes[b].element)
                        \o TailsAfterBoxes(doc, ChildElements(doc, boxes[b].element))

\* C10 amended: the children of a box dom_to_box built are the leading text,
\* then per child element in document order its box unless its display is
\* none, followed by a TextBox for its tail when it has one, whatever its
\* display; every TextBox has the element of the box as element.
C10_TailOfEveryChild ==
    (pc = "idle" /\ passes = <<"dom_to_box">>) =>
        \A b \in 1..Len(boxes) :
            IF IsTextBox(Heap, b)
            THEN boxes[b].element = boxes[boxes[b].parent].element
            ELSE Described(Heap, Children(Heap, b)) =
                    LeadingText(doc, boxes[b].element)
                        \o TailsOfAll(doc, ChildElements(doc, boxes[b].element))

\* C10 witness: dom_to_box returned a box for an element with a leading text,
\* a child element of display none with a tail and a child element of another
\* display with a tail.
C10_Witness ==
    /\ pc = "idle"
    /\ passes = <<"dom_to_box">>
    /\ doc[1].text # None
    /\ \E c1, c2 \in 2..Len(doc) :
          /\ doc[c1].parent = 1 /\ doc[c1].display = <<"none">> /\ doc[c1].tail # None
          /\ doc[c2].parent = 1 /\ doc[c2].display # <<"none">> /\ doc[c2].tail # None

====
